---- MODULE Spec2Model ----
(***************************************************************************)
(* ESP32 power-button simulator: the three sketches of the repository.     *)
(*                                                                         *)
(*   Unconditional  src/unnamed/part_000      debounce + momentary press   *)
(*   BurstAware     src/chris.ino   1..190    + rapid switching, shutdown  *)
(*   StateVerified  src/chris.ino 192..339    + power LED verification     *)
(*                                                                         *)
(* Time.  millis() grows without bound, and the sketches read a timestamp  *)
(* only in the differences  now - lastChangeTime  (loop) and               *)
(* now - firstChangeInWindow  (trackRapidChanges).  The model keeps these  *)
(* two differences as its state: sinceLastChange and sinceFirstChange are  *)
(* the values the code computes, in milliseconds, saturated just above the *)
(* threshold each is compared with.  delay(n) advances both by n; the      *)
(* statements between two delays take no time.  Runs are shorter than the  *)
(* 2^32 ms wrap of millis().                                               *)
(*                                                                         *)
(* A loop() iteration is cut at its blocking calls and at the writes to    *)
(* POWER_BTN_PIN and LED_PRESS_ACTIVE, so that the states in which the     *)
(* line is driven, and the order of the two writes, are states of the      *)
(* model.                                                                  *)
(*                                                                         *)
(* Besides the program's state the model records what a run shows of its   *)
(* inputs and outputs: the raw samples of the last HistSpan ms and the     *)
(* chatter runs they form (Spec), or the series of stable changes that     *)
(* fall into one window length (SpecBurst), or neither (SpecLive, which    *)
(* adds that the processor keeps running the thread).  The program reads   *)
(* none of it.                                                             *)
(***************************************************************************)
EXTENDS Integers, Sequences, FiniteSets, TLC

----------------------------------------------------------------------------
(* Program constants *)

HIGH == TRUE
LOW == FALSE

DEBOUNCE_MS == 50
RAPID_CHANGE_WINDOW_MS == 2000
MIN_RAPID_CHANGES_TRIGGER == 3
MAX_RAPID_CHANGES_TRIGGER == 6
PRESS_MS == 200
SHUTDOWN_MS == 4000
SHUTDOWN_POLL_MS == 50
LOOP_DELAY_MS == 10
SETUP_DELAY_MS == 1000

Variants == {"Unconditional", "BurstAware", "StateVerified"}

(* Bounds *)

\* stable changes followed in one run
MaxChanges == 6
\* edges, stable changes and presses counted in one chatter run
RunCap == 3

(* Saturation of the two time differences, above every threshold read *)
ChangeAgeCap == DEBOUNCE_MS + LOOP_DELAY_MS
WindowAgeCap == RAPID_CHANGE_WINDOW_MS + LOOP_DELAY_MS
SeriesCap == MAX_RAPID_CHANGES_TRIGGER + 1
SinceBurstCap == MIN_RAPID_CHANGES_TRIGGER + 1
\* raw samples are remembered for this long
HistSpan == DEBOUNCE_MS + LOOP_DELAY_MS
\* the time since the first sample after a hold is followed this far
PostHoldCap == DEBOUNCE_MS + 2 * LOOP_DELAY_MS

----------------------------------------------------------------------------
VARIABLES
    variant,            \* which sketch runs
    pc,                 \* position of the single thread
    \* globals of the sketches
    lastReading,        \* lastReading / lastTriggerReading
    stableTriggerState,
    sinceLastChange,    \* millis() - lastChangeTime
    rapidChangeCount,
    sinceFirstChange,   \* millis() - firstChangeInWindow
    \* pins
    powerBtnMode,       \* pinMode of POWER_BTN_PIN: "INPUT" or "OUTPUT"
    ledTriggerState,    \* LED_TRIGGER_STATE
    ledPressActive,     \* LED_PRESS_ACTIVE
    \* locals of the iteration in progress
    currentReading,     \* digitalRead(TRIGGER_PIN) of the latest iteration
    powerLEDState,      \* digitalRead(POWER_LED_PIN) of the latest handleTriggerChange
    asserted,           \* ms POWER_BTN_PIN has been driven in the current call
    \* observation of the run
    observed,           \* what is recorded of it: "samples", "series" or "none"
    stableChanged,      \* the latest iteration committed a new stable state
    prevStable,         \* stableTriggerState when the latest iteration began
    burst,              \* the latest stable change called simulateHardShutdown
    sinceBurst,         \* stable changes since the latest hard shutdown, up to
                        \* SinceBurstCap; SinceBurstCap before the first
    sincePostHold,      \* ms since the first sample after a hold, if it differed from the
                        \* stable state and the samples have kept its level; else -1
    holdLog,            \* durations of the assertions made for the latest stable change
    hist,               \* raw samples of the last HistSpan ms, oldest first
    runEdges,           \* raw edges of the current chatter run
    runEvents,          \* stable changes of the current chatter run
    runPresses,         \* momentary presses of the current chatter run
    seriesCount,        \* stable changes of the current series
    sinceSeriesFirst,   \* ms since the first stable change of the series
    seriesOnSchedule,   \* the series' stable changes came 500 ms apart
    changeCount,        \* stable changes so far
    pressCount          \* calls of simulatePowerButtonPress so far

debounceVars == <<lastReading, stableTriggerState, sinceLastChange>>
burstVars == <<rapidChangeCount, sinceFirstChange>>
pinVars == <<powerBtnMode, ledTriggerState, ledPressActive>>
tickVars == <<currentReading, powerLEDState, stableChanged, prevStable, burst, sinceBurst>>
countVars == <<changeCount, pressCount>>
runVars == <<runEdges, runEvents, runPresses>>
seriesVars == <<seriesCount, sinceSeriesFirst, seriesOnSchedule>>

vars == <<variant, observed, pc, lastReading, stableTriggerState, sinceLastChange,
          rapidChangeCount, sinceFirstChange, powerBtnMode, ledTriggerState,
          ledPressActive, currentReading, powerLEDState, asserted,
          stableChanged, prevStable, burst, sinceBurst, sincePostHold, holdLog,
          hist, runEdges,
          runEvents, runPresses, seriesCount, sinceSeriesFirst,
          seriesOnSchedule, changeCount, pressCount>>

----------------------------------------------------------------------------
(* Time *)

Min(a, b) == IF a <= b THEN a ELSE b

\* the samples of h, d ms later
Aged(h, d) ==
    LET older == [i \in 1..Len(h) |->
                    [level |-> h[i].level, edge |-> h[i].edge, age |-> h[i].age + d]]
    IN  SelectSeq(older, LAMBDA s : s.age <= HistSpan)

\* delay(d): d ms pass
Delay(d) ==
    /\ sinceLastChange' = Min(sinceLastChange + d, ChangeAgeCap)
    /\ sinceFirstChange' = Min(sinceFirstChange + d, WindowAgeCap)
    /\ hist' = Aged(hist, d)
    /\ sinceSeriesFirst' = IF seriesCount = 0 THEN 0
                           ELSE Min(sinceSeriesFirst + d, WindowAgeCap)
    /\ sincePostHold' = IF sincePostHold < 0 THEN -1
                        ELSE Min(sincePostHold + d, PostHoldCap)

----------------------------------------------------------------------------
(* setup() *)

\* LED_TRIGGER_STATE left as setup() first writes it
TriggerLed_Off(s) == LOW

\* digitalWrite(LED_TRIGGER_STATE, stableTriggerState ? HIGH : LOW)
TriggerLed(s) == IF s THEN HIGH ELSE LOW

\* setup() without stableTriggerState = lastReading
InitOf_StableLow(vs, obs) ==
    /\ variant \in vs
    /\ observed = obs
    /\ pc = "loop"
    /\ lastReading \in BOOLEAN
    /\ stableTriggerState = LOW
    /\ sinceLastChange = 0
    /\ rapidChangeCount = 0
    /\ sinceFirstChange = SETUP_DELAY_MS
    /\ powerBtnMode = "INPUT"
    /\ ledTriggerState = TriggerLed(stableTriggerState)
    /\ ledPressActive = LOW
    /\ currentReading = lastReading
    /\ powerLEDState = LOW
    /\ asserted = 0
    /\ stableChanged = FALSE
    /\ prevStable = stableTriggerState
    /\ burst = FALSE
    /\ sinceBurst = SinceBurstCap
    /\ sincePostHold = -1
    /\ holdLog = <<>>
    /\ hist = IF obs = "samples"
              THEN <<[level |-> lastReading, edge |-> FALSE, age |-> 0]>>
              ELSE <<>>
    /\ runEdges = 0
    /\ runEvents = 0
    /\ runPresses = 0
    /\ seriesCount = 0
    /\ sinceSeriesFirst = 0
    /\ seriesOnSchedule = TRUE
    /\ changeCount = 0
    /\ pressCount = 0

\* the state in which setup() returns
InitOf(vs, obs) ==
    /\ variant \in vs
    /\ observed = obs
    /\ pc = "loop"
    /\ lastReading \in BOOLEAN
    /\ stableTriggerState = lastReading
    /\ sinceLastChange = 0
    /\ rapidChangeCount = 0
    /\ sinceFirstChange = SETUP_DELAY_MS
    /\ powerBtnMode = "INPUT"
    /\ ledTriggerState = TriggerLed(stableTriggerState)
    /\ ledPressActive = LOW
    /\ currentReading = lastReading
    /\ powerLEDState = LOW
    /\ asserted = 0
    /\ stableChanged = FALSE
    /\ prevStable = stableTriggerState
    /\ burst = FALSE
    /\ sinceBurst = SinceBurstCap
    /\ sincePostHold = -1
    /\ holdLog = <<>>
    /\ hist = IF obs = "samples"
              THEN <<[level |-> lastReading, edge |-> FALSE, age |-> 0]>>
              ELSE <<>>
    /\ runEdges = 0
    /\ runEvents = 0
    /\ runPresses = 0
    /\ seriesCount = 0
    /\ sinceSeriesFirst = 0
    /\ seriesOnSchedule = TRUE
    /\ changeCount = 0
    /\ pressCount = 0

----------------------------------------------------------------------------
(* loop(): the debouncer *)

\* step 1 without the restart of the timer on a raw edge
ChangeAge_NoRestart(r) == sinceLastChange

\* now - lastChangeTime after step 1 of loop()
ChangeAge(r) == IF r # lastReading THEN 0 ELSE sinceLastChange

\* step 2 without the wait
IsStableChange_Immediate(r) == r # stableTriggerState

\* step 2 with a wait of one polling period
IsStableChange_Short(r) == ChangeAge(r) > LOOP_DELAY_MS /\ r # stableTriggerState

\* step 2 with >= for >
IsStableChange_AtLeast(r) == ChangeAge(r) >= DEBOUNCE_MS /\ r # stableTriggerState

\* the condition of step 2 of loop()
IsStableChange(r) == ChangeAge(r) > DEBOUNCE_MS /\ r # stableTriggerState

(* What the run shows of the raw input.  An edge is a sample that differs  *)
(* from the sample before it; a chatter run is a maximal series of edges,  *)
(* each at most DEBOUNCE_MS after the one before.                          *)

\* no edge was sampled in the last DEBOUNCE_MS
Quiet(h) == \A i \in 1..Len(h) : h[i].edge => h[i].age > DEBOUNCE_MS

\* the samples of h have been at level r for more than DEBOUNCE_MS
Persisted(h, r) ==
    \E i \in 1..Len(h) :
        /\ h[i].age > DEBOUNCE_MS
        /\ \A j \in i..Len(h) : h[j].level = r

Observe(r) ==
    LET isEdge == r # currentReading
        newRun == isEdge /\ Quiet(hist)
    IN  IF observed = "samples"
        THEN /\ hist' = Append(hist, [level |-> r, edge |-> isEdge, age |-> 0])
             /\ runEdges' = IF newRun THEN 1
                             ELSE IF isEdge THEN Min(runEdges + 1, RunCap)
                             ELSE runEdges
             /\ runEvents' = Min((IF newRun THEN 0 ELSE runEvents)
                                   + (IF IsStableChange(r) THEN 1 ELSE 0), RunCap)
             /\ runPresses' = IF newRun THEN 0 ELSE runPresses
        ELSE UNCHANGED <<hist, runVars>>

(* What the run shows after a hold: the first sample after it, and how   *)
(* long the samples have kept that sample's level.                        *)

ObserveHold(r) ==
    sincePostHold' =
        IF stableChanged /\ holdLog # <<>>
        THEN IF r # stableTriggerState THEN 0 ELSE -1
        ELSE IF sincePostHold >= 0 /\ ~stableChanged /\ r = currentReading
             THEN sincePostHold
             ELSE -1

\* steps 1 and 2 of loop() up to the dispatch, on the raw sample r
Debounce(r) ==
    /\ currentReading' = r
    /\ lastReading' = r
    /\ sinceLastChange' = ChangeAge(r)
    /\ Observe(r)
    /\ ObserveHold(r)
    /\ prevStable' = stableTriggerState
    /\ stableChanged' = IsStableChange(r)
    /\ IF IsStableChange(r)
       THEN /\ stableTriggerState' = r
            /\ ledTriggerState' = TriggerLed(r)
            /\ changeCount' = changeCount + 1
            /\ holdLog' = <<>>
       ELSE UNCHANGED <<stableTriggerState, ledTriggerState, changeCount, holdLog>>

----------------------------------------------------------------------------
(* trackRapidChanges() *)

\* the window test with >= for >
CountedChanges_AtLeast ==
    IF sinceFirstChange >= RAPID_CHANGE_WINDOW_MS THEN 1 ELSE rapidChangeCount + 1

\* rapidChangeCount after the window test
CountedChanges ==
    IF sinceFirstChange > RAPID_CHANGE_WINDOW_MS THEN 1 ELSE rapidChangeCount + 1

\* millis() - firstChangeInWindow after the window test
WindowAge ==
    IF sinceFirstChange > RAPID_CHANGE_WINDOW_MS THEN 0 ELSE sinceFirstChange

IsHardShutdown(c) ==
    c >= MIN_RAPID_CHANGES_TRIGGER /\ c <= MAX_RAPID_CHANGES_TRIGGER

(* What the run shows of the stable changes.  A series is the stable       *)
(* changes that lie within RAPID_CHANGE_WINDOW_MS of its first one; a      *)
(* series begins with the first stable change after start-up, after a      *)
(* hard shutdown, or after the series before it has run out.               *)

ObserveChange ==
    LET newSeries == seriesCount = 0 \/ sinceSeriesFirst > RAPID_CHANGE_WINDOW_MS
    IN  IF observed = "series"
        THEN /\ seriesCount' = IF newSeries THEN 1
                                ELSE Min(seriesCount + 1, SeriesCap)
             /\ sinceSeriesFirst' = IF newSeries THEN 0 ELSE sinceSeriesFirst
             /\ seriesOnSchedule' = IF newSeries THEN TRUE
                                     ELSE /\ seriesOnSchedule
                                          /\ sinceSeriesFirst = 500 * seriesCount
        ELSE UNCHANGED seriesVars

----------------------------------------------------------------------------
(* handleTriggerChange() *)

\* the press on OFF -> ON only
NeedsPress_OnOnly(newTriggerState, led) ==
    IF newTriggerState = HIGH THEN ~led ELSE FALSE

\* whether handleTriggerChange() calls simulatePowerButtonPress()
NeedsPress(newTriggerState, led) ==
    IF newTriggerState = HIGH THEN ~led ELSE led

----------------------------------------------------------------------------
(* Where a stable change takes the thread *)

\* a press on OFF -> ON only
DispatchUnconditional_OnOnly(r) == IF r = HIGH THEN "press_call" ELSE "loop_delay"

\* loop() of the debounce sketch: a press for any stable transition
DispatchUnconditional(r) == "press_call"

\* loop() of the rapid-switching sketch: trackRapidChanges() first, which
\* calls simulateHardShutdown() on a count of c in the trigger range
DispatchBurstAware(c) == IF IsHardShutdown(c) THEN "shutdown_call" ELSE "press_call"

\* handleTriggerChange()
DispatchStateVerified(r, led) == IF NeedsPress(r, led) THEN "press_call" ELSE "loop_delay"

\* the hard shutdown taken for the whole action
TrackReturn_NoPress == "loop_delay"

\* trackRapidChanges() returns into loop(), which calls simulatePowerButtonPress()
TrackReturn == "press_call"

\* the counter left as it is after the hard shutdown
CountAfterShutdown_Kept == rapidChangeCount

\* rapidChangeCount = 0 after simulateHardShutdown()
CountAfterShutdown == 0

\* a hold that ends as early as the press does
StillHolding_Short(a) == a < PRESS_MS

\* the condition of the wait loop of simulateHardShutdown(), a ms after shutdownStart
StillHolding(a) == a < SHUTDOWN_MS

\* POWER_BTN_PIN left driven at the end of an action
ReleaseMode_Driven == "OUTPUT"

\* pinMode(POWER_BTN_PIN, INPUT) at the end of an action
ReleaseMode == "INPUT"

\* a press that is started over
PressReturn_Again == "press_call"

\* simulatePowerButtonPress() returns into loop(), at delay(10)
PressReturn == "loop_delay"

----------------------------------------------------------------------------
(* Actions *)

\* loop() of src/unnamed/part_000 up to simulatePowerButtonPress() or delay(10)
loopUnconditional(r) ==
    /\ variant = "Unconditional"
    /\ pc = "loop"
    /\ changeCount < MaxChanges
    /\ Debounce(r)
    /\ pc' = IF IsStableChange(r) THEN DispatchUnconditional(r) ELSE "loop_delay"
    /\ UNCHANGED <<variant, observed, burstVars, powerBtnMode, ledPressActive,
                   powerLEDState, asserted, burst, sinceBurst, seriesVars, pressCount>>

\* loop() of the rapid-switching sketch with trackRapidChanges(), up to
\* simulateHardShutdown(), simulatePowerButtonPress() or delay(10)
loopBurstAware(r) ==
    /\ variant = "BurstAware"
    /\ pc = "loop"
    /\ changeCount < MaxChanges
    /\ Debounce(r)
    /\ IF IsStableChange(r)
       THEN /\ ObserveChange
            /\ rapidChangeCount' = CountedChanges
            /\ sinceFirstChange' = WindowAge
            /\ burst' = IsHardShutdown(CountedChanges)
            /\ sinceBurst' = Min(sinceBurst + 1, SinceBurstCap)
            /\ pc' = DispatchBurstAware(CountedChanges)
       ELSE /\ UNCHANGED <<burstVars, seriesVars, burst, sinceBurst>>
            /\ pc' = "loop_delay"
    /\ UNCHANGED <<variant, observed, powerBtnMode, ledPressActive, powerLEDState,
                   asserted, pressCount>>

\* loop() of the state-verification sketch with handleTriggerChange(), up to
\* simulatePowerButtonPress() or delay(10)
loopStateVerified(r, led) ==
    /\ variant = "StateVerified"
    /\ pc = "loop"
    /\ changeCount < MaxChanges
    /\ Debounce(r)
    /\ IF IsStableChange(r)
       THEN /\ powerLEDState' = led
            /\ pc' = DispatchStateVerified(r, led)
       ELSE /\ UNCHANGED powerLEDState
            /\ pc' = "loop_delay"
    /\ UNCHANGED <<variant, observed, burstVars, powerBtnMode, ledPressActive,
                   asserted, burst, sinceBurst, seriesVars, pressCount>>

\* simulateHardShutdown(): LED_PRESS_ACTIVE on
simulateHardShutdownBegin ==
    /\ pc = "shutdown_call"
    /\ ledPressActive' = HIGH
    /\ pc' = "shutdown_drive"
    /\ UNCHANGED <<variant, observed, sincePostHold, debounceVars, burstVars, powerBtnMode,
                   ledTriggerState, tickVars, asserted, holdLog, hist, runVars,
                   seriesVars, countVars>>

\* simulateHardShutdown(): POWER_BTN_PIN driven LOW, shutdownStart = millis()
simulateHardShutdownDrive ==
    /\ pc = "shutdown_drive"
    /\ powerBtnMode' = "OUTPUT"
    /\ asserted' = 0
    /\ pc' = "shutdown_wait"
    /\ UNCHANGED <<variant, observed, sincePostHold, debounceVars, burstVars, ledTriggerState,
                   ledPressActive, tickVars, holdLog, hist, runVars, seriesVars,
                   countVars>>

\* one iteration of the wait loop of simulateHardShutdown()
simulateHardShutdownWait ==
    /\ pc = "shutdown_wait"
    /\ StillHolding(asserted)
    /\ Delay(SHUTDOWN_POLL_MS)
    /\ asserted' = asserted + SHUTDOWN_POLL_MS
    /\ UNCHANGED <<variant, observed, pc, lastReading, stableTriggerState, rapidChangeCount,
                   pinVars, tickVars, holdLog, runVars, seriesCount,
                   seriesOnSchedule, countVars>>

\* simulateHardShutdown() after its wait loop: POWER_BTN_PIN released
simulateHardShutdownRelease ==
    /\ pc = "shutdown_wait"
    /\ ~StillHolding(asserted)
    /\ powerBtnMode' = ReleaseMode
    /\ holdLog' = Append(holdLog, asserted)
    /\ asserted' = 0
    /\ pc' = "shutdown_release"
    /\ UNCHANGED <<variant, observed, sincePostHold, debounceVars, burstVars, ledTriggerState,
                   ledPressActive, tickVars, hist, runVars, seriesVars, countVars>>

\* simulateHardShutdown(): LED_PRESS_ACTIVE off, and the reset of the counter
\* in trackRapidChanges() after the call
simulateHardShutdownEnd ==
    /\ pc = "shutdown_release"
    /\ ledPressActive' = LOW
    /\ rapidChangeCount' = CountAfterShutdown
    /\ sinceBurst' = 0
    /\ pc' = TrackReturn
    /\ seriesCount' = 0
    /\ sinceSeriesFirst' = 0
    /\ seriesOnSchedule' = TRUE
    /\ UNCHANGED <<variant, observed, sincePostHold, debounceVars, sinceFirstChange,
                   powerBtnMode, ledTriggerState, currentReading, powerLEDState, stableChanged,
                   prevStable, burst, asserted, holdLog, hist, runVars, countVars>>

\* simulatePowerButtonPress(): LED_PRESS_ACTIVE on
simulatePowerButtonPressBegin ==
    /\ pc = "press_call"
    /\ ledPressActive' = HIGH
    /\ pressCount' = pressCount + 1
    /\ runPresses' = IF observed = "samples"
                     THEN Min(runPresses + 1, RunCap) ELSE runPresses
    /\ pc' = "press_drive"
    /\ UNCHANGED <<variant, observed, sincePostHold, debounceVars, burstVars, powerBtnMode,
                   ledTriggerState, tickVars, asserted, holdLog, hist, runEdges,
                   runEvents, seriesVars, changeCount>>

\* simulatePowerButtonPress(): POWER_BTN_PIN driven LOW
simulatePowerButtonPressDrive ==
    /\ pc = "press_drive"
    /\ powerBtnMode' = "OUTPUT"
    /\ asserted' = 0
    /\ pc' = "press_wait"
    /\ UNCHANGED <<variant, observed, sincePostHold, debounceVars, burstVars, ledTriggerState,
                   ledPressActive, tickVars, holdLog, hist, runVars, seriesVars,
                   countVars>>

\* simulatePowerButtonPress(): delay(200), then POWER_BTN_PIN released
simulatePowerButtonPressRelease ==
    /\ pc = "press_wait"
    /\ Delay(PRESS_MS)
    /\ powerBtnMode' = ReleaseMode
    /\ holdLog' = Append(holdLog, asserted + PRESS_MS)
    /\ asserted' = 0
    /\ pc' = "press_release"
    /\ UNCHANGED <<variant, observed, lastReading, stableTriggerState, rapidChangeCount,
                   ledTriggerState, ledPressActive, tickVars, runVars, seriesCount,
                   seriesOnSchedule, countVars>>

\* simulatePowerButtonPress(): LED_PRESS_ACTIVE off, return
simulatePowerButtonPressEnd ==
    /\ pc = "press_release"
    /\ ledPressActive' = LOW
    /\ pc' = PressReturn
    /\ UNCHANGED <<variant, observed, sincePostHold, debounceVars, burstVars, powerBtnMode,
                   ledTriggerState, tickVars, asserted, holdLog, hist, runVars,
                   seriesVars, countVars>>

\* delay(10) at the end of loop()
loopDelay ==
    /\ pc = "loop_delay"
    /\ Delay(LOOP_DELAY_MS)
    /\ pc' = "loop"
    /\ UNCHANGED <<variant, observed, lastReading, stableTriggerState, rapidChangeCount,
                   pinVars, currentReading, powerLEDState, asserted,
                   stableChanged, prevStable, burst, sinceBurst, holdLog, runVars,
                   seriesCount, seriesOnSchedule, countVars>>

----------------------------------------------------------------------------
(* Specifications *)

Init == InitOf(Variants, "samples")

Next ==
    \/ \E r \in BOOLEAN : loopUnconditional(r)
    \/ \E r \in BOOLEAN : loopBurstAware(r)
    \/ \E r, led \in BOOLEAN : loopStateVerified(r, led)
    \/ simulateHardShutdownBegin
    \/ simulateHardShutdownDrive
    \/ simulateHardShutdownWait
    \/ simulateHardShutdownRelease
    \/ simulateHardShutdownEnd
    \/ simulatePowerButtonPressBegin
    \/ simulatePowerButtonPressDrive
    \/ simulatePowerButtonPressRelease
    \/ simulatePowerButtonPressEnd
    \/ loopDelay

Spec == Init /\ [][Next]_vars

\* the rapid-switching sketch alone, with its series of stable changes
InitBurst == InitOf({"BurstAware"}, "series")

NextBurst ==
    \/ \E r \in BOOLEAN : loopBurstAware(r)
    \/ simulateHardShutdownBegin
    \/ simulateHardShutdownDrive
    \/ simulateHardShutdownWait
    \/ simulateHardShutdownRelease
    \/ simulateHardShutdownEnd
    \/ simulatePowerButtonPressBegin
    \/ simulatePowerButtonPressDrive
    \/ simulatePowerButtonPressRelease
    \/ simulatePowerButtonPressEnd
    \/ loopDelay

SpecBurst == InitBurst /\ [][NextBurst]_vars

\* the three sketches with the program's state alone, and the processor
\* always taking the thread's next step
InitLive == InitOf(Variants, "none")

SpecLive == InitLive /\ [][Next]_vars /\ WF_vars(Next)

----------------------------------------------------------------------------
(* Properties *)

\* a step that is one pass of loop() over a raw sample
LoopStep == pc = "loop" /\ pc' # "loop"

\* a step that commits a new stable state
CommitStep == stableTriggerState' # stableTriggerState

\* C1: the stable state changes only in a pass of loop() whose raw sample
\* differs from the stable state and has been the raw level for more than
\* DEBOUNCE_MS (now - lastChangeTime > 50); it becomes that sample.
C1_DebouncerSafety ==
    [][CommitStep =>
          /\ LoopStep
          /\ currentReading' # stableTriggerState
          /\ stableTriggerState' = currentReading'
          /\ sinceLastChange' > DEBOUNCE_MS
          /\ Persisted(hist', currentReading')]_vars

C1_Witness ==
    /\ stableChanged
    /\ pc \in {"press_call", "shutdown_call"}
    /\ stableTriggerState = currentReading
    /\ Len(hist) > 1

\* C2: a chatter run (edges at most DEBOUNCE_MS apart) yields at most one
\* stable change, committed only once no edge has been sampled for more than
\* DEBOUNCE_MS, to the level the chatter ended on; and in the unconditional
\* sketch at most one press.
C2_ChatterOneEvent ==
    /\ [](runEvents <= 1)
    /\ [](variant = "Unconditional" => runPresses <= 1)
    /\ [][CommitStep =>
             /\ Quiet(hist')
             /\ stableTriggerState' = hist'[Len(hist')].level]_vars

C2_Witness ==
    /\ variant = "Unconditional"
    /\ runEdges >= 3
    /\ runEvents = 1
    /\ runPresses = 1

\* C3: a pass of loop() commits a stable change if and only if its raw
\* sample differs from the stable state and the samples have been at that
\* level for more than DEBOUNCE_MS.
C3_EventIffPersisted ==
    [][LoopStep =>
          (CommitStep <=>
              /\ currentReading' # stableTriggerState
              /\ Persisted(hist', currentReading'))]_vars

C3_Witness ==
    /\ pc = "loop_delay"
    /\ ~stableChanged
    /\ currentReading # stableTriggerState
    /\ sinceLastChange = DEBOUNCE_MS

\* the latest edge of h was sampled a ms ago
LastEdgeAt(h, a) ==
    \E i \in 1..Len(h) :
        /\ h[i].edge
        /\ h[i].age = a
        /\ \A j \in (i + 1)..Len(h) : ~h[j].edge

\* C4 as claimed: from stable LOW, the event fires at the first sample at
\* which HIGH has lasted at least DEBOUNCE_MS since the last raw edge.
C4_FiresAtFifty ==
    [][(/\ LoopStep
        /\ stableTriggerState = LOW
        /\ currentReading' = HIGH
        /\ LastEdgeAt(hist', DEBOUNCE_MS)) => CommitStep]_vars

\* C4: sampled every LOOP_DELAY_MS from stable LOW, a raw input that
\* chatters and then stays HIGH gives one stable change, to HIGH, at the
\* first sample more than DEBOUNCE_MS after the last raw edge, which is
\* the sample DEBOUNCE_MS + LOOP_DELAY_MS after it.
C4_FiresAfterFifty ==
    [][(/\ LoopStep
        /\ stableTriggerState = LOW
        /\ currentReading' = HIGH)
       => /\ CommitStep <=> LastEdgeAt(hist', DEBOUNCE_MS + LOOP_DELAY_MS)
          /\ CommitStep => stableTriggerState' = HIGH /\ runEvents' = 1]_vars

C4_Witness ==
    /\ stableChanged
    /\ prevStable = LOW
    /\ stableTriggerState = HIGH
    /\ runEdges >= 3
    /\ runEvents = 1
    /\ LastEdgeAt(hist, DEBOUNCE_MS + LOOP_DELAY_MS)

\* assertions of POWER_BTN_PIN begun for the latest stable change
Assertions == Len(holdLog) + (IF powerBtnMode = "OUTPUT" THEN 1 ELSE 0)

\* C5 as claimed: in every sketch the line is asserted at most once for
\* one stable change.
C5_AtMostOneAssertion == Assertions <= 1

\* C5: the line is asserted at most once for one stable change, except in
\* the rapid-switching sketch on a stable change that triggers the hard
\* shutdown, for which it is asserted at most twice.
C5_AtMostOneOrTwo ==
    /\ Assertions <= (IF burst THEN 2 ELSE 1)
    /\ burst => variant = "BurstAware"

C5_Witness ==
    /\ variant = "BurstAware"
    /\ burst
    /\ Assertions = 2
    /\ powerBtnMode = "OUTPUT"

\* the assertions completed once the hard shutdown, if any, is over
AfterShutdownLog ==
    IF burst
    THEN Len(holdLog) = 1 /\ holdLog[1] >= SHUTDOWN_MS
    ELSE holdLog = <<>>

\* C6: in the rapid-switching sketch a stable change that triggers the hard
\* shutdown holds the line for at least SHUTDOWN_MS and releases it before
\* the press begins, and every stable change ends with the PRESS_MS press.
C6_ShutdownThenPress ==
    variant = "BurstAware" =>
        /\ pc \in {"shutdown_call", "shutdown_drive", "shutdown_wait"} =>
              burst /\ holdLog = <<>>
        /\ pc \in {"press_call", "press_drive"} =>
              powerBtnMode = "INPUT" /\ AfterShutdownLog
        /\ pc = "press_wait" => powerBtnMode = "OUTPUT" /\ AfterShutdownLog
        /\ (pc \in {"loop_delay", "loop"} /\ stableChanged) =>
              /\ powerBtnMode = "INPUT"
              /\ Len(holdLog) = (IF burst THEN 2 ELSE 1)
              /\ holdLog[Len(holdLog)] = PRESS_MS
              /\ burst => holdLog[1] >= SHUTDOWN_MS

C6_Witness ==
    /\ variant = "BurstAware"
    /\ pc = "loop_delay"
    /\ stableChanged
    /\ burst
    /\ holdLog = <<SHUTDOWN_MS, PRESS_MS>>

\* C7: in the state-verification sketch a stable change is followed by
\* one PRESS_MS press if the new stable state differs from the power LED
\* level read at that moment, and by nothing if they agree; the line is
\* driven for no other reason and never held longer.
C7_PressIffMismatch ==
    variant = "StateVerified" =>
        /\ pc \notin {"shutdown_call", "shutdown_drive", "shutdown_wait",
                     "shutdown_release"}
        /\ pc = "press_call" =>
              stableChanged /\ holdLog = <<>> /\ stableTriggerState # powerLEDState
        /\ powerBtnMode = "OUTPUT" =>
              /\ pc = "press_wait"
              /\ stableChanged /\ holdLog = <<>>
              /\ stableTriggerState # powerLEDState
        /\ (pc \in {"loop_delay", "loop"} /\ stableChanged) =>
              /\ powerBtnMode = "INPUT"
              /\ holdLog = (IF stableTriggerState # powerLEDState
                            THEN <<PRESS_MS>> ELSE <<>>)

C7_Witness ==
    /\ variant = "StateVerified"
    /\ pc = "loop_delay"
    /\ stableChanged
    /\ stableTriggerState = LOW
    /\ powerLEDState = HIGH
    /\ holdLog = <<PRESS_MS>>
    /\ changeCount = 2
    /\ pressCount = 1

\* C8: in the unconditional sketch every stable change, in either
\* direction, is followed by one PRESS_MS press and there is no other
\* press: between iterations the presses equal the stable changes.
C8_PressPerChange ==
    variant = "Unconditional" =>
        /\ pressCount = (IF pc = "press_call" THEN changeCount - 1 ELSE changeCount)
        /\ pc \in {"press_call", "press_drive", "press_wait"} =>
              stableChanged /\ holdLog = <<>>
        /\ (pc \in {"press_release", "loop_delay", "loop"} /\ changeCount > 0) =>
              holdLog = <<PRESS_MS>>

C8_Witness ==
    /\ variant = "Unconditional"
    /\ pc = "loop"
    /\ changeCount = 2
    /\ pressCount = 2
    /\ stableTriggerState = prevStable
    /\ holdLog = <<PRESS_MS>>

\* C9 as claimed, for the first two stable changes of a series: the N
\* stable changes that lie within RAPID_CHANGE_WINDOW_MS of the first of
\* them leave rapidChangeCount at N, whenever the first one comes.
C9_CountIsSeriesLength ==
    (variant = "BurstAware" /\ seriesCount <= 2) => rapidChangeCount = seriesCount

\* C10 as claimed: a stable change calls the hard shutdown exactly when the
\* count that includes it is in MIN..MAX_RAPID_CHANGES_TRIGGER, the count is
\* 0 once the hard shutdown is over, and the third of three stable changes
\* that come 0, 500 and 1000 ms after the first calls it.
C10_ThirdOfThreeQualifies ==
    /\ [][(variant = "BurstAware" /\ LoopStep /\ CommitStep) =>
             (pc' = "shutdown_call" <=>
                 /\ rapidChangeCount' >= MIN_RAPID_CHANGES_TRIGGER
                 /\ rapidChangeCount' <= MAX_RAPID_CHANGES_TRIGGER)]_vars
    /\ [][(pc = "shutdown_release" /\ pc' # "shutdown_release") =>
             rapidChangeCount' = 0]_vars
    /\ [][(/\ variant = "BurstAware"
           /\ LoopStep
           /\ CommitStep
           /\ seriesCount' = 3
           /\ seriesOnSchedule'
           /\ sinceSeriesFirst' = 2 * 500) => pc' = "shutdown_call"]_vars


\* a pass of loop() of the rapid-switching sketch that commits a stable change
BurstCommit == variant = "BurstAware" /\ LoopStep /\ CommitStep

\* C11: a stable change that comes more than RAPID_CHANGE_WINDOW_MS after
\* firstChangeInWindow sets firstChangeInWindow to now and rapidChangeCount
\* to 1 and calls no hard shutdown; one that comes at most
\* RAPID_CHANGE_WINDOW_MS after it (exactly 2000 ms included) increments
\* rapidChangeCount and leaves firstChangeInWindow as it is.
C11_WindowExpiry ==
    [][BurstCommit =>
          IF sinceFirstChange > RAPID_CHANGE_WINDOW_MS
          THEN /\ sinceFirstChange' = 0
               /\ rapidChangeCount' = 1
               /\ pc' = "press_call"
               /\ ~burst'
          ELSE /\ rapidChangeCount' = rapidChangeCount + 1
               /\ sinceFirstChange' = sinceFirstChange]_vars

\* a second stable change exactly RAPID_CHANGE_WINDOW_MS after firstChangeInWindow
C11_Witness ==
    /\ variant = "BurstAware"
    /\ stableChanged
    /\ pc = "press_call"
    /\ sinceFirstChange = RAPID_CHANGE_WINDOW_MS
    /\ rapidChangeCount = 2


\* the positions inside simulatePowerButtonPress() and simulateHardShutdown()
InPress == pc \in {"press_drive", "press_wait", "press_release"}
InShutdown == pc \in {"shutdown_drive", "shutdown_wait", "shutdown_release"}

\* C12: in every sketch, between two passes of loop() POWER_BTN_PIN is in
\* INPUT mode and LED_PRESS_ACTIVE is off; POWER_BTN_PIN is driven only
\* while LED_PRESS_ACTIVE is on, and only inside the delay of the one call
\* of simulatePowerButtonPress() or simulateHardShutdown() in progress.
C12_InertWhenIdle ==
    /\ ~(InPress \/ InShutdown) => powerBtnMode = "INPUT" /\ ledPressActive = LOW
    /\ powerBtnMode = "OUTPUT" => ledPressActive = HIGH
    /\ powerBtnMode = "OUTPUT" => pc \in {"press_wait", "shutdown_wait"}
    /\ ledPressActive = HIGH => InPress \/ InShutdown

\* the polling tick after a press: the line was driven and is inert again
C12_Witness ==
    /\ pc = "loop"
    /\ holdLog # <<>>
    /\ powerBtnMode = "INPUT"
    /\ ledPressActive = LOW


\* a step that ends the driving of POWER_BTN_PIN
ReleaseStep == powerBtnMode = "OUTPUT" /\ powerBtnMode' # "OUTPUT"

\* C13: POWER_BTN_PIN, once driven, is returned to INPUT mode after PRESS_MS
\* by simulatePowerButtonPress() and after at least SHUTDOWN_MS by
\* simulateHardShutdown(), and loop() then polls again: the line is never
\* left driven.
C13_ActionTerminates ==
    /\ [][ReleaseStep =>
             /\ powerBtnMode' = "INPUT"
             /\ pc = "press_wait" => holdLog'[Len(holdLog')] = PRESS_MS
             /\ pc = "shutdown_wait" => holdLog'[Len(holdLog')] >= SHUTDOWN_MS]_vars
    /\ (powerBtnMode = "OUTPUT") ~> (powerBtnMode = "INPUT" /\ pc = "loop")

\* the polling tick after a hard shutdown and its press
C13_Witness ==
    /\ pc = "loop"
    /\ powerBtnMode = "INPUT"
    /\ Len(holdLog) = 2
    /\ holdLog[1] >= SHUTDOWN_MS
    /\ holdLog[2] = PRESS_MS


\* the ms that pass in a step taken inside a call
HoldStepMs ==
    IF pc = "press_wait" THEN PRESS_MS
    ELSE IF pc = "shutdown_wait" /\ pc' = "shutdown_wait" THEN SHUTDOWN_POLL_MS
    ELSE 0

\* C14: while simulatePowerButtonPress() or simulateHardShutdown() executes,
\* no stable change is committed, the trigger is not read, lastReading,
\* lastChangeTime and stableTriggerState keep their values, and no call of
\* either function is begun: the press begins no other, and the hard
\* shutdown is followed, once it has returned, by the press of its own
\* stable change.
C14_NoDispatchDuringHold ==
    /\ [][(InPress \/ InShutdown) =>
             /\ UNCHANGED <<lastReading, stableTriggerState, currentReading,
                            ledTriggerState, changeCount, pressCount>>
             /\ sinceLastChange' = Min(sinceLastChange + HoldStepMs, ChangeAgeCap)]_vars
    /\ [][(InPress \/ powerBtnMode = "OUTPUT") =>
             pc' \notin {"press_call", "shutdown_call"}]_vars
    /\ [][InShutdown =>
             /\ pc' # "shutdown_call"
             /\ pc' = "press_call" =>
                   /\ pc = "shutdown_release"
                   /\ powerBtnMode = "INPUT"
                   /\ UNCHANGED changeCount]_vars

\* the end of a hard shutdown's hold, begun right after a stable change
C14_Witness ==
    /\ pc = "shutdown_release"
    /\ stableChanged
    /\ lastReading = stableTriggerState
    /\ sinceLastChange = ChangeAgeCap
    /\ holdLog = <<SHUTDOWN_MS>>


\* C15: setup() leaves lastReading and stableTriggerState at the raw level
\* it read, whatever that is, and POWER_BTN_PIN in INPUT mode; until the
\* first stable change no call is made and the line stays in INPUT mode,
\* and the first stable change comes only when the samples have been at the
\* other level for more than DEBOUNCE_MS.
C15_StartUp ==
    /\ lastReading = currentReading
    /\ stableTriggerState = currentReading
    /\ powerBtnMode = "INPUT"
    /\ [](changeCount = 0 =>
             /\ powerBtnMode = "INPUT"
             /\ ledPressActive = LOW
             /\ pressCount = 0
             /\ pc \in {"loop", "loop_delay"})
    /\ [][changeCount = 0 =>
             /\ ~CommitStep => UNCHANGED <<stableTriggerState, changeCount>>
             /\ CommitStep =>
                   /\ changeCount' = 1
                   /\ currentReading' # stableTriggerState
                   /\ sinceLastChange' > DEBOUNCE_MS
                   /\ Persisted(hist', currentReading')]_vars

\* the first stable change, from a start-up level of HIGH
C15_Witness ==
    /\ changeCount = 1
    /\ stableChanged
    /\ prevStable = HIGH
    /\ stableTriggerState = LOW
    /\ pc \in {"press_call", "shutdown_call", "loop_delay"}
    /\ powerBtnMode = "INPUT"
    /\ pressCount = 0


\* C16: LED_TRIGGER_STATE shows stableTriggerState when setup() returns, at
\* every pass of loop(), and, after a stable change, from before the first
\* call of simulateHardShutdown() or simulatePowerButtonPress() for it.
C16_TriggerLedShowsStable ==
    ledTriggerState = (IF stableTriggerState THEN HIGH ELSE LOW)

\* a stable change to HIGH with the press about to begin
C16_Witness ==
    /\ pc = "press_call"
    /\ stableChanged
    /\ prevStable = LOW
    /\ stableTriggerState = HIGH
    /\ ledTriggerState = HIGH
    /\ holdLog = <<>>


\* C17: once a hard shutdown is over rapidChangeCount is 0 until the next
\* stable change; that stable change calls no hard shutdown, and a hard
\* shutdown is called only by the third or a later stable change after the
\* one before it.
C17_NoRetrigger ==
    /\ [](sinceBurst = 0 => rapidChangeCount = 0)
    /\ [][(BurstCommit /\ sinceBurst = 0) =>
             /\ pc' = "press_call"
             /\ ~burst'
             /\ rapidChangeCount' = 1]_vars
    /\ [](InShutdown => sinceBurst >= MIN_RAPID_CHANGES_TRIGGER)

\* the hard shutdown called by the third stable change after a hard shutdown
C17_Witness ==
    /\ pc = "shutdown_wait"
    /\ burst
    /\ sinceBurst = MIN_RAPID_CHANGES_TRIGGER
    /\ rapidChangeCount = MIN_RAPID_CHANGES_TRIGGER


\* C19: in the rapid-switching sketch rapidChangeCount is never above
\* MIN_RAPID_CHANGES_TRIGGER and is 0, 1 or 2 at every pass of loop(); the
\* first stable change after a hard shutdown finds the window run out
\* (the hold alone takes SHUTDOWN_MS > RAPID_CHANGE_WINDOW_MS) and sets the
\* count to 1.
C19_CountAtMostMin ==
    /\ [](rapidChangeCount \in 0..MIN_RAPID_CHANGES_TRIGGER)
    /\ [](pc \in {"loop", "loop_delay"} =>
             rapidChangeCount < MIN_RAPID_CHANGES_TRIGGER)
    /\ [][(BurstCommit /\ sinceBurst = 0) =>
             /\ sinceFirstChange > RAPID_CHANGE_WINDOW_MS
             /\ sinceFirstChange' = 0
             /\ rapidChangeCount' = 1]_vars

\* the first stable change after a hard shutdown, counted as 1
C19_Witness ==
    /\ variant = "BurstAware"
    /\ pc = "press_call"
    /\ stableChanged
    /\ sinceBurst = 1
    /\ rapidChangeCount = 1
    /\ sinceFirstChange = 0


\* the first pass of loop() after a hold
PostHoldTick == LoopStep /\ stableChanged /\ holdLog # <<>>

\* C20: a raw level that changed during a hold and then stays is not lost:
\* the first pass of loop() after the hold restarts the debounce timer and
\* commits nothing, and the stable change to that level is committed by
\* the first pass more than DEBOUNCE_MS after that one (the pass 60 ms
\* later) and by none before it; if the first sample after the hold is the
\* stable level, that pass commits nothing and calls nothing.  Whenever the
\* samples stay at one level from some pass on, the stable state comes to
\* equal it.
C20_ChangeAcrossHold ==
    /\ [][(PostHoldTick /\ currentReading' # stableTriggerState) =>
             /\ ~CommitStep
             /\ pc' = "loop_delay"
             /\ lastReading' = currentReading'
             /\ sinceLastChange' = 0
             /\ sincePostHold' = 0]_vars
    /\ [][(LoopStep /\ sincePostHold' >= 0 /\ ~PostHoldTick) =>
             /\ CommitStep <=> sincePostHold' > DEBOUNCE_MS
             /\ CommitStep =>
                   /\ sincePostHold' = DEBOUNCE_MS + LOOP_DELAY_MS
                   /\ stableTriggerState' = currentReading']_vars
    /\ [][(LoopStep /\ currentReading' = stableTriggerState) =>
             /\ ~CommitStep
             /\ pc' = "loop_delay"
             /\ PostHoldTick => UNCHANGED sinceLastChange]_vars
    /\ \A v \in BOOLEAN :
          <>[](currentReading = v) => <>[](stableTriggerState = v)

\* the stable change committed 60 ms after the first sample after a hold
C20_Witness ==
    /\ stableChanged
    /\ changeCount >= 2
    /\ sincePostHold = DEBOUNCE_MS + LOOP_DELAY_MS
    /\ stableTriggerState = currentReading
    /\ stableTriggerState # prevStable
    /\ pc \in {"press_call", "shutdown_call", "loop_delay"}
    /\ holdLog = <<>>

====
